---- MODULE Spec2Model ----
(***************************************************************************)
(* Model of framework/bin/replace_code.py: the function locator (AST path  *)
(* and regex fallback), the indentation-based end-of-function scan, the    *)
(* re-indenting rewriter and the per-change loop of main().                *)
(*                                                                         *)
(* Text is a sequence of one-character strings, so offsets, slices and     *)
(* line splitting are the ones of the Python code.  The alphabet holds no  *)
(* "\r" (nor any other separator of str.splitlines besides "\n") and no    *)
(* tab, so a line ends at "\n" only and indentation is a count of spaces.  *)
(***************************************************************************)
EXTENDS Integers, Sequences, FiniteSets, TLC

VARIABLES
    file,       \* content of the target file (a text), or Missing
    pc,         \* position of the caller: "idle", "called", "relocated", "run", "done"
    call,       \* the last call made: operation, arguments and the file it read
    ret,        \* what the last call returned
    writes,     \* how many times the file was opened for writing
    changes,    \* selected_instruction: the queued (function_name, code) pairs
    index,      \* position of main()'s loop in the queue
    outcomes    \* the status lines reported so far, one per attempted change

vars == <<file, pc, call, ret, writes, changes, index, outcomes>>

-----------------------------------------------------------------------------
(* Python str primitives used by the code.                                 *)

NL == "\n"

IsSpace(c) == c \in {" ", "\n", "\t"}

Min(S) == CHOOSE m \in S : \A k \in S : m <= k
Max(S) == CHOOSE m \in S : \A k \in S : k <= m

\* number of leading whitespace characters of s
LeadingSpace(s) ==
    LET rest == {i \in 1..Len(s) : ~IsSpace(s[i])}
    IN  IF rest = {} THEN Len(s) ELSE Min(rest) - 1

\* number of trailing whitespace characters of s
TrailingSpace(s) ==
    LET rest == {i \in 1..Len(s) : ~IsSpace(s[i])}
    IN  IF rest = {} THEN Len(s) ELSE Len(s) - (CHOOSE m \in rest : \A k \in rest : k <= m)

\* str.lstrip()
lstrip(s) == SubSeq(s, LeadingSpace(s) + 1, Len(s))

\* str.strip()
strip(s) ==
    IF LeadingSpace(s) = Len(s) THEN <<>>
    ELSE SubSeq(s, LeadingSpace(s) + 1, Len(s) - TrailingSpace(s))

\* str.startswith(p)
startswith(s, p) == Len(s) >= Len(p) /\ SubSeq(s, 1, Len(p)) = p

\* str.endswith(p)
endswith(s, p) == Len(s) >= Len(p) /\ SubSeq(s, Len(s) - Len(p) + 1, Len(s)) = p

\* s[n:]
Drop(s, n) == SubSeq(s, n + 1, Len(s))

RECURSIVE SplitFrom(_, _, _, _)
SplitFrom(s, i, start, keepends) ==
    IF i > Len(s)
    THEN IF start <= Len(s) THEN <<SubSeq(s, start, Len(s))>> ELSE <<>>
    ELSE IF s[i] = NL
         THEN <<SubSeq(s, start, IF keepends THEN i ELSE i - 1)>>
              \o SplitFrom(s, i + 1, i + 1, keepends)
         ELSE SplitFrom(s, i + 1, start, keepends)

\* str.splitlines(keepends)
splitlines(s, keepends) == SplitFrom(s, 1, 1, keepends)

RECURSIVE Flatten(_)
\* "".join(lines)
Flatten(ls) == IF ls = <<>> THEN <<>> ELSE Head(ls) \o Flatten(Tail(ls))

RECURSIVE JoinNL(_)
\* "\n".join(lines)
JoinNL(ls) ==
    IF ls = <<>> THEN <<>>
    ELSE IF Len(ls) = 1 THEN ls[1]
         ELSE ls[1] \o <<NL>> \o JoinNL(Tail(ls))

RECURSIVE Spaces(_)
\* " " * n
Spaces(n) == IF n <= 0 THEN <<>> ELSE <<" ">> \o Spaces(n - 1)

RECURSIVE SumLen(_, _)
\* sum(len(lines[i]) for i in range(n))
SumLen(lines, n) == IF n <= 0 THEN 0 ELSE Len(lines[n]) + SumLen(lines, n - 1)

\* len(line) - len(line.lstrip())
IndentOf(line) == Len(line) - Len(lstrip(line))

\* line.strip() == "" or line.strip().startswith("#")
BlankOrComment(line) == strip(line) = <<>> \/ startswith(strip(line), <<"#">>)

-----------------------------------------------------------------------------
(* The two regular expressions, matched with re.match at the start of one  *)
(* line.  NoMatch stands for a None match object; a match is the length of *)
(* group(1), the leading whitespace.                                       *)

NoMatch == -1

\* the part of the pattern after the keyword:  \s+ name \s* [closers]
MatchTail(rest, name, closers) ==
    /\ rest # <<>> /\ IsSpace(rest[1])
    /\ startswith(lstrip(rest), name)
    /\ LET after == lstrip(Drop(lstrip(rest), Len(name)))
       IN  after # <<>> /\ after[1] \in closers

\* rf"^(\s*)def\s+{re.escape(function_name)}\s*\("
function_pattern(line, function_name) ==
    LET rest == lstrip(line)
    IN  IF startswith(rest, <<"d", "e", "f">>)
           /\ MatchTail(Drop(rest, 3), function_name, {"("})
        THEN LeadingSpace(line) ELSE NoMatch

\* rf"^(\s*)class\s+{re.escape(class_name)}\s*[:\(]"
class_pattern(line, class_name) ==
    LET rest == lstrip(line)
    IN  IF startswith(rest, <<"c", "l", "a", "s", "s">>)
           /\ MatchTail(Drop(rest, 5), class_name, {":", "("})
        THEN LeadingSpace(line) ELSE NoMatch

-----------------------------------------------------------------------------
(* find_function_end_regex: the end-of-function scan.  Line numbers are    *)
(* the code's 0-based ones; lines[i] of the code is lines[i + 1] here.     *)

None == <<>>

RECURSIVE end_scan(_, _, _)
\* the while loop: returns the final end_line
end_scan(lines, end_line, function_indent) ==
    IF ~(end_line < Len(lines)) THEN end_line
    ELSE LET line == lines[end_line + 1]
         IN  IF BlankOrComment(line)
             THEN end_scan(lines, end_line + 1, function_indent)
             ELSE IF IndentOf(line) <= function_indent /\ strip(line) # <<>>
                  THEN end_line
                  ELSE end_scan(lines, end_line + 1, function_indent)

\* a scan that begins on the header line itself
find_function_end_regex_from_header(lines, start_line, function_indent) ==
    LET end_line == end_scan(lines, start_line, function_indent)
    IN  <<SumLen(lines, start_line), SumLen(lines, end_line), function_indent>>

find_function_end_regex(lines, start_line, function_indent) ==
    LET end_line == end_scan(lines, start_line + 1, function_indent)
    IN  <<SumLen(lines, start_line), SumLen(lines, end_line), function_indent>>

-----------------------------------------------------------------------------
(* find_function_regex: the textual locator.                               *)

\* the first of the (0-based) line indices `hits`, as a for loop with break finds it; `none` if there is none
FirstLine(hits, none) == IF hits = {} THEN none ELSE Min(hits)

\* the function search inside the class window (the for loop of lines 125-132)
RECURSIVE class_window_scan(_, _, _, _, _)
class_window_scan(lines, i, class_end, class_indent, function_name) ==
    IF i >= class_end THEN None
    ELSE LET function_indent == function_pattern(lines[i + 1], function_name)
         IN  IF function_indent # NoMatch /\ function_indent > class_indent
             THEN find_function_end_regex(lines, i, function_indent)
             ELSE class_window_scan(lines, i + 1, class_end, class_indent, function_name)

find_function_regex(content, function_name, class_name) ==
    LET lines == splitlines(content, TRUE)
        n == Len(lines)
    IN  IF class_name # <<>>
        THEN LET class_start ==
                     FirstLine({i \in 0..(n - 1) : class_pattern(lines[i + 1], class_name) # NoMatch}, n)
             IN  IF class_start = n THEN None
                 ELSE LET class_indent == class_pattern(lines[class_start + 1], class_name)
                          class_end ==
                              FirstLine({i \in (class_start + 1)..(n - 1) :
                                            /\ ~BlankOrComment(lines[i + 1])
                                            /\ IndentOf(lines[i + 1]) <= class_indent
                                            /\ strip(lines[i + 1]) # <<>>}, n)
                      IN  class_window_scan(lines, class_start + 1, class_end,
                                            class_indent, function_name)
        ELSE LET start_line ==
                     FirstLine({i \in 0..(n - 1) :
                                   function_pattern(lines[i + 1], function_name) # NoMatch}, n)
             IN  IF start_line = n THEN None
                 ELSE find_function_end_regex(lines, start_line,
                          function_pattern(lines[start_line + 1], function_name))

-----------------------------------------------------------------------------
(* ast.parse on the statement forms the documents are written in:          *)
(*   class NAME[(params)]: [simple]   def NAME(params): [simple]   simple  *)
(* with simple one of  NAME,  NUMBER,  return NAME|NUMBER.  Blank lines    *)
(* and comment lines are skipped by the tokenizer; the other lines open    *)
(* and close blocks by their indentation as Python's INDENT/DEDENT rule    *)
(* has it.  Anything else is a SyntaxError.                                *)

Letters == {"a", "b", "c", "d", "e", "f", "g", "h", "i", "j", "k", "l", "m",
            "n", "o", "p", "q", "r", "s", "t", "u", "v", "w", "x", "y", "z",
            "A", "B", "C", "D", "E", "F", "G", "H", "I", "J", "K", "L", "M",
            "N", "O", "P", "Q", "R", "S", "T", "U", "V", "W", "X", "Y", "Z", "_"}

Digits == {"0", "1", "2", "3", "4", "5", "6", "7", "8", "9"}

kw_def == <<"d", "e", "f">>
kw_class == <<"c", "l", "a", "s", "s">>
kw_return == <<"r", "e", "t", "u", "r", "n">>

\* length of the NAME token at the start of s (0 if none)
NameLen(s) ==
    IF s = <<>> \/ s[1] \notin Letters THEN 0
    ELSE LET stop == {i \in 1..Len(s) : s[i] \notin Letters \cup Digits}
         IN  IF stop = {} THEN Len(s) ELSE Min(stop) - 1

IsName(s) == s # <<>> /\ NameLen(s) = Len(s) /\ s \notin {kw_def, kw_class}
IsNumber(s) == s # <<>> /\ \A i \in 1..Len(s) : s[i] \in Digits
IsAtom(s) == (IsName(s) /\ s # kw_return) \/ IsNumber(s)

IsSimple(t) ==
    \/ IsName(t)
    \/ IsNumber(t)
    \/ /\ startswith(t, kw_return) /\ Len(t) > 6 /\ IsSpace(t[7])
       /\ IsAtom(lstrip(Drop(t, 6)))

BadStmt == [type |-> "SyntaxError", name |-> <<>>, block |-> FALSE]

\* the rest of a compound statement after its NAME: ":" then nothing or a simple statement
Suite(type, name, after) ==
    IF after = <<>> \/ after[1] # ":" THEN BadStmt
    ELSE LET body == strip(Drop(after, 1))
         IN  IF body = <<>> THEN [type |-> type, name |-> name, block |-> TRUE]
             ELSE IF IsSimple(body) THEN [type |-> type, name |-> name, block |-> FALSE]
                  ELSE BadStmt

\* "(" params ")" with params names separated by commas
AfterParams(after) ==
    IF after = <<>> \/ after[1] # "(" THEN <<"?">>
    ELSE LET close == {i \in 2..Len(after) : after[i] = ")"}
         IN  IF close = {} THEN <<"?">>
             ELSE LET c == Min(close)
                      params == SubSeq(after, 2, c - 1)
                  IN  IF \A i \in 1..Len(params) : params[i] \in Letters \cup Digits \cup {",", " "}
                      THEN lstrip(Drop(after, c)) ELSE <<"?">>

\* the statement on one stripped, non-blank, non-comment line
Statement(t) ==
    LET compound(kw) == startswith(t, kw) /\ Len(t) > Len(kw) /\ IsSpace(t[Len(kw) + 1])
        rest(kw) == lstrip(Drop(t, Len(kw)))
        name(kw) == SubSeq(rest(kw), 1, NameLen(rest(kw)))
        after(kw) == lstrip(Drop(rest(kw), NameLen(rest(kw))))
    IN  IF compound(kw_class)
        THEN IF name(kw_class) = <<>> THEN BadStmt
             ELSE Suite("ClassDef", name(kw_class),
                        IF after(kw_class) # <<>> /\ after(kw_class)[1] = "("
                        THEN AfterParams(after(kw_class)) ELSE after(kw_class))
        ELSE IF compound(kw_def)
             THEN IF name(kw_def) = <<>> THEN BadStmt
                  ELSE Suite("FunctionDef", name(kw_def), AfterParams(after(kw_def)))
             ELSE IF IsSimple(t) THEN [type |-> "Expr", name |-> <<>>, block |-> FALSE]
                  ELSE BadStmt

SyntaxError == [error |-> TRUE, nodes |-> <<>>]

NoNode == [type |-> "none", name |-> <<>>, parent |-> 0]

\* pop the indentation stack down to indentation d
RECURSIVE Dedent(_, _)
Dedent(stack, d) ==
    IF Len(stack) > 1 /\ stack[Len(stack)].indent > d
    THEN Dedent(SubSeq(stack, 1, Len(stack) - 1), d)
    ELSE stack

\* lines k.. of the document: the nodes so far, one per line (NoNode for a blank or
\* comment line), each with the line of its enclosing definition (0: the module);
\* pending is the line of a header whose block has not started yet (0: none)
RECURSIVE ParseLines(_, _, _, _, _)
ParseLines(lines, k, stack, pending, nodes) ==
    IF k > Len(lines)
    THEN IF pending # 0 THEN SyntaxError ELSE [error |-> FALSE, nodes |-> nodes]
    ELSE IF BlankOrComment(lines[k])
         THEN ParseLines(lines, k + 1, stack, pending, Append(nodes, NoNode))
         ELSE LET d == LeadingSpace(lines[k])
                  st == Statement(strip(lines[k]))
                  top == stack[Len(stack)]
                  stack2 == IF pending # 0
                            THEN Append(stack, [indent |-> d, owner |-> pending])
                            ELSE Dedent(stack, d)
                  ok == /\ st.type # "SyntaxError"
                        /\ IF pending # 0 THEN d > top.indent
                           ELSE stack2[Len(stack2)].indent = d
              IN  IF ~ok THEN SyntaxError
                  ELSE ParseLines(lines, k + 1, stack2, IF st.block THEN k ELSE 0,
                                  Append(nodes, [type |-> st.type, name |-> st.name,
                                                 parent |-> stack2[Len(stack2)].owner]))

\* ast.parse(content): SyntaxError, or the tree as one node per line (tree.nodes)
ast_parse(content) ==
    ParseLines(splitlines(content, TRUE), 1, <<[indent |-> 0, owner |-> 0]>>, 0, <<>>)

\* ast.iter_child_nodes(node): the statements of the node's body, in order
iter_child_nodes(tree, node) ==
    SelectSeq([k \in 1..Len(tree) |-> k],
              LAMBDA k : tree[k].type # "none" /\ tree[k].parent = node)

RECURSIVE walk_todo(_, _)
walk_todo(tree, todo) ==
    IF todo = <<>> THEN <<>>
    ELSE <<Head(todo)>> \o walk_todo(tree, Tail(todo) \o iter_child_nodes(tree, Head(todo)))

\* ast.walk(node): the node, then its descendants as a deque of pending nodes
\* yields them (popleft, then extend with the children)
ast_walk(tree, node) == walk_todo(tree, <<node>>)

\* the first node of `order` with the given type and name, 0 if there is none
FirstNamed(tree, order, type, name) ==
    LET hits == {i \in 1..Len(order) :
                    /\ order[i] # 0
                    /\ tree[order[i]].type = type
                    /\ tree[order[i]].name = name}
    IN  IF hits = {} THEN 0 ELSE order[Min(hits)]

\* a search that takes the first function of the name, whatever the class
target_node_any_class(tree, function_name, class_name) ==
    FirstNamed(tree, ast_walk(tree, 0), "FunctionDef", function_name)

\* lines 26-46: the node search
target_node(tree, function_name, class_name) ==
    IF class_name # <<>>
    THEN LET node == FirstNamed(tree, ast_walk(tree, 0), "ClassDef", class_name)
         IN  IF node = 0 THEN 0
             ELSE FirstNamed(tree, ast_walk(tree, node), "FunctionDef", function_name)
    ELSE FirstNamed(tree, ast_walk(tree, 0), "FunctionDef", function_name)

RECURSIVE ast_end_scan(_, _, _)
\* lines 61-76: the end-of-function scan of the AST path
ast_end_scan(lines, end_line, function_indent) ==
    IF ~(end_line < Len(lines)) THEN end_line
    ELSE LET line == lines[end_line + 1]
         IN  IF BlankOrComment(line)
             THEN ast_end_scan(lines, end_line + 1, function_indent)
             ELSE IF IndentOf(line) <= function_indent /\ strip(line) # <<>>
                  THEN end_line
                  ELSE ast_end_scan(lines, end_line + 1, function_indent)

\* a span that gives back the blank lines at its end
ast_span_trimmed(lines, start_line, function_indent) ==
    LET end_line == ast_end_scan(lines, start_line + 1, function_indent)
        kept == {k \in (start_line + 1)..end_line :
                    k = start_line + 1 \/ strip(lines[k]) # <<>>}
    IN  <<SumLen(lines, start_line), SumLen(lines, Max(kept)), function_indent>>

\* a span that runs to the end of the file
ast_span_to_end(lines, start_line, function_indent) ==
    <<SumLen(lines, start_line), SumLen(lines, Len(lines)), function_indent>>

\* lines 61-82: the scan from start_line and the character positions
ast_span(lines, start_line, function_indent) ==
    LET end_line == ast_end_scan(lines, start_line + 1, function_indent)
    IN  <<SumLen(lines, start_line), SumLen(lines, end_line), function_indent>>

\* lines 23-82: the try block, given the parsed tree
find_function_ast(content, tree, function_name, class_name) ==
    LET node == target_node(tree.nodes, function_name, class_name)
    IN  IF node = 0 THEN None
        ELSE LET lines == splitlines(content, TRUE)
                 start_line == node - 1
             IN  ast_span(lines, start_line, IndentOf(lines[start_line + 1]))

find_function_in_code(content, function_name, class_name) ==
    LET tree == ast_parse(content)
    IN  IF tree.error
        THEN find_function_regex(content, function_name, class_name)
        ELSE find_function_ast(content, tree, function_name, class_name)

-----------------------------------------------------------------------------
(* apply_function_change.  The file system is the one file at file_path:   *)
(* its text, or Missing.                                                   *)

Missing == <<"<missing>">>

RECURSIVE indent_lines(_, _, _)
\* lines 216-228: the loop over new_lines, from line i (0-based) on
indent_lines(new_lines, i, indent_str) ==
    IF i >= Len(new_lines) THEN <<>>
    ELSE LET line == new_lines[i + 1]
         IN  <<IF i = 0 THEN indent_str \o lstrip(line)
               ELSE IF strip(line) # <<>> THEN indent_str \o line
                    ELSE line>>
             \o indent_lines(new_lines, i + 1, indent_str)

\* the replacement as given, not indented
formatted_new_code_flush(new_code, function_indent) ==
    LET joined == JoinNL(splitlines(new_code, FALSE))
    IN  IF endswith(joined, <<NL>>) THEN joined ELSE joined \o <<NL>>

\* lines 212-233
formatted_new_code(new_code, function_indent) ==
    LET joined == JoinNL(indent_lines(splitlines(new_code, FALSE), 0, Spaces(function_indent)))
    IN  IF endswith(joined, <<NL>>) THEN joined ELSE joined \o <<NL>>

\* a splice that keeps the old span behind the new code
new_content_inserts(content, result, new_code) ==
    SubSeq(content, 1, result[1])
    \o formatted_new_code(new_code, result[3])
    \o Drop(content, result[1])

\* line 236
new_content(content, result, new_code) ==
    SubSeq(content, 1, result[1])
    \o formatted_new_code(new_code, result[3])
    \o Drop(content, result[2])

\* a call that appends the new code when the function is not found
apply_function_change_appends(fs, function_name, new_code, class_name) ==
    IF fs = Missing
    THEN [ok |-> FALSE, status |-> "file not found", fs |-> fs, wrote |-> FALSE,
          result |-> None]
    ELSE LET result == find_function_in_code(fs, function_name, class_name)
         IN  IF result = None
             THEN [ok |-> FALSE, status |-> "function not found",
                   fs |-> fs \o formatted_new_code(new_code, 0), wrote |-> TRUE,
                   result |-> None]
             ELSE [ok |-> TRUE, status |-> "replaced",
                   fs |-> fs \o formatted_new_code(new_code, 0), wrote |-> TRUE,
                   result |-> result]

\* the whole call: what it returns, the status it prints, the file it leaves,
\* whether it opened the file for writing, and the span it worked on
apply_function_change(fs, function_name, new_code, class_name) ==
    IF fs = Missing
    THEN [ok |-> FALSE, status |-> "file not found", fs |-> fs, wrote |-> FALSE,
          result |-> None]
    ELSE LET result == find_function_in_code(fs, function_name, class_name)
         IN  IF result = None
             THEN [ok |-> FALSE, status |-> "function not found", fs |-> fs,
                   wrote |-> FALSE, result |-> None]
             ELSE [ok |-> TRUE, status |-> "replaced",
                   fs |-> new_content(fs, result, new_code), wrote |-> TRUE,
                   result |-> result]

-----------------------------------------------------------------------------
(* The documents the calls are made on.  A document is a sequence of at    *)
(* most MaxStmts statements, each at an indentation of Indents, that obeys *)
(* Python's block structure: a class header, a function f with a one-line  *)
(* body, a simple statement, a comment in column 0, and at most one        *)
(* statement with a syntax error ("!").  Repair puts a valid statement in  *)
(* place of the faulty one.                                                *)

MaxStmts == 4
MaxClassStmts == 5
Indents == {0, 1, 2}

f == <<"f">>
A == <<"A">>
B == <<"B">>

Line(i, body) == Spaces(i) \o body \o <<NL>>

ClassStmt(i, name) == Line(i, kw_class \o <<" ">> \o name \o <<":">>)
DefStmt(i, name) == Line(i, kw_def \o <<" ">> \o name \o <<"(", ")", ":">>) \o Line(i + 1, <<"x">>)
SimpleStmt(i) == Line(i, <<"x">>)
FaultyStmt(i) == Line(i, <<"!">>)
CommentLine == Line(0, <<"#">>)

Repair(content) == [i \in 1..Len(content) |-> IF content[i] = "!" THEN "x" ELSE content[i]]

\* a document under construction: its text, the indentations of the open blocks,
\* whether a block is due, whether it holds the faulty statement
EmptyDoc == [text |-> <<>>, open |-> {0}, due |-> FALSE, faulty |-> FALSE]


\* d followed by a statement with the given text at indentation i
AddStmt(d, i, text, header, fault) ==
    [text |-> d.text \o text,
     open |-> {j \in d.open : j < i} \cup {i},
     due |-> header,
     faulty |-> d.faulty \/ fault]

Extensions(d, kinds) ==
    LET at == IF d.due THEN {i \in Indents : i > Max(d.open)} ELSE Indents \cap d.open
    IN  UNION {
            IF "A" \in kinds THEN {AddStmt(d, i, ClassStmt(i, A), TRUE, FALSE) : i \in at} ELSE {},
            IF "B" \in kinds THEN {AddStmt(d, i, ClassStmt(i, B), TRUE, FALSE) : i \in at} ELSE {},
            IF "f" \in kinds THEN {AddStmt(d, i, DefStmt(i, f), FALSE, FALSE) : i \in at} ELSE {},
            IF "x" \in kinds THEN {AddStmt(d, i, SimpleStmt(i), FALSE, FALSE) : i \in at} ELSE {},
            IF "!" \in kinds /\ ~d.faulty
                THEN {AddStmt(d, i, FaultyStmt(i), FALSE, TRUE) : i \in at} ELSE {},
            IF "#" \in kinds THEN {[d EXCEPT !.text = d.text \o CommentLine]} ELSE {} }

RECURSIVE DocsUpTo(_, _)
DocsUpTo(n, kinds) ==
    IF n = 0 THEN {EmptyDoc}
    ELSE LET shorter == DocsUpTo(n - 1, kinds)
         IN  shorter \cup UNION {Extensions(d, kinds) : d \in shorter}

Texts(docs) == {d.text : d \in {e \in docs : ~e.due}}

ProgramDocs == Texts(DocsUpTo(MaxStmts, {"A", "f", "x", "#", "!"}))
ClassDocs == Texts(DocsUpTo(MaxClassStmts, {"A", "B", "f", "!"}))
Documents == ProgramDocs \cup ClassDocs

-----------------------------------------------------------------------------
(* The locator calls.                                                      *)

NoCall == [op |-> "none", function_name |-> <<>>, class_name |-> <<>>,
           new_code |-> <<>>, before |-> <<>>, start_line |-> 0, indent |-> 0,
           result |-> None]

Idle(docs) ==
    /\ file \in docs
    /\ pc = "idle"
    /\ call = NoCall
    /\ ret = None
    /\ writes = 0
    /\ changes = <<>>
    /\ index = 0
    /\ outcomes = <<>>

Init == Idle(Documents)

CallFindFunctionInCode(function_name, class_name) ==
    /\ pc = "idle"
    /\ ret' = find_function_in_code(file, function_name, class_name)
    /\ call' = [NoCall EXCEPT !.op = "find_function_in_code",
                              !.function_name = function_name,
                              !.class_name = class_name, !.before = file]
    /\ pc' = "called"
    /\ UNCHANGED <<file, writes, changes, index, outcomes>>

CallFindFunctionRegex(function_name, class_name) ==
    /\ pc = "idle"
    /\ ret' = find_function_regex(file, function_name, class_name)
    /\ call' = [NoCall EXCEPT !.op = "find_function_regex",
                              !.function_name = function_name,
                              !.class_name = class_name, !.before = file]
    /\ pc' = "called"
    /\ UNCHANGED <<file, writes, changes, index, outcomes>>

Next ==
    \/ \E class_name \in {<<>>, A, B} : CallFindFunctionInCode(f, class_name)
    \/ \E class_name \in {<<>>, A, B} : CallFindFunctionRegex(f, class_name)

Spec == Init /\ [][Next]_vars

-----------------------------------------------------------------------------
(* What the claims speak of: the structure of a document (of its valid     *)
(* version, when it holds the faulty statement) and the lines of a span.   *)

Structure(content) == ast_parse(Repair(content)).nodes

\* offset of the first character of line k (1-based)
LineStart(content, k) == SumLen(splitlines(content, TRUE), k - 1)

Named(tree, type, name) ==
    {k \in 1..Len(tree) : tree[k].type = type /\ tree[k].name = name}

RECURSIVE Encloses(_, _, _)
\* the definition at line a encloses line k
Encloses(tree, a, k) ==
    k # 0 /\ (tree[k].parent = a \/ Encloses(tree, a, tree[k].parent))

\* the methods called name that the class at line c defines
Methods(tree, c, name) == {k \in Named(tree, "FunctionDef", name) : tree[k].parent = c}

\* the lines whose first character lies in the span
SpanLines(content, span) ==
    {k \in 1..Len(splitlines(content, TRUE)) :
        span[1] <= LineStart(content, k) /\ LineStart(content, k) < span[2]}

\* columns of leading blanks of a line, its line end not counted
Column(line) == LeadingSpace(IF endswith(line, <<NL>>) THEN SubSeq(line, 1, Len(line) - 1) ELSE line)

Located == pc = "called" /\ call.op \in {"find_function_in_code", "find_function_regex"}

Other(class_name) == IF class_name = A THEN B ELSE A

\* the requested class and the other one are each defined once and each defines f
TwoClasses(tree, class_name) ==
    /\ Cardinality(Named(tree, "ClassDef", class_name)) = 1
    /\ Cardinality(Named(tree, "ClassDef", Other(class_name))) = 1
    /\ \A c \in Named(tree, "ClassDef", A) \cup Named(tree, "ClassDef", B) :
           Methods(tree, c, f) # {}

\* the span starts at a `def f` line of the requested class and holds no line
\* of a method f of the other class
ScopedTo(tree, class_name) ==
    /\ ret # None
    /\ \E c \in Named(tree, "ClassDef", class_name) :
           \E m \in Methods(tree, c, f) : ret[1] = LineStart(file, m)
    /\ \A o \in Named(tree, "ClassDef", Other(class_name)) :
           \A m \in Methods(tree, o, f) : m \notin SpanLines(file, ret)

Nested(tree) ==
    \E a \in Named(tree, "ClassDef", A) : \E b \in Named(tree, "ClassDef", B) :
        Encloses(tree, a, b) \/ Encloses(tree, b, a)

\* C1 as stated: in every document with two classes that each define a method f,
\* find_function_in_code with a class name returns a span that starts at the
\* `def f` line of that class and covers no line of the other class's method,
\* on the AST path (the document parses) and on the fallback path (it does not).
C1_ClassScoping ==
    (/\ pc = "called" /\ call.op = "find_function_in_code" /\ call.class_name # <<>>
     /\ TwoClasses(Structure(file), call.class_name))
        => ScopedTo(Structure(file), call.class_name)

\* C1 amended: the same, for two classes neither of which is defined inside the other.
C1_ClassScopingSiblings ==
    (/\ pc = "called" /\ call.op = "find_function_in_code" /\ call.class_name # <<>>
     /\ TwoClasses(Structure(file), call.class_name)
     /\ ~Nested(Structure(file)))
        => ScopedTo(Structure(file), call.class_name)

\* two sibling classes, the second one asked for, located on the fallback path
C1_Witness ==
    /\ pc = "called" /\ call.op = "find_function_in_code" /\ call.class_name = B
    /\ ast_parse(file).error
    /\ TwoClasses(Structure(file), B) /\ ~Nested(Structure(file))
    /\ ret # None /\ ret[1] > 0

\* C5 as stated: without a class name, on a document that parses, the structural
\* locator returns the definition of f that comes first in document (pre-order) order.
C5_FirstInDocumentOrder ==
    (/\ pc = "called" /\ call.op = "find_function_in_code" /\ call.class_name = <<>>
     /\ ~ast_parse(file).error
     /\ Named(Structure(file), "FunctionDef", f) # {})
        => /\ ret # None
           /\ ret[1] = LineStart(file, Min(Named(Structure(file), "FunctionDef", f)))

\* C6 as stated: on a document whose only syntax error lies outside the target
\* function, the fallback returns the start offset and the indentation width that
\* the structural locator returns on the valid version of the document.
C6_FallbackEquivalence ==
    LET valid == find_function_in_code(Repair(file), call.function_name, call.class_name)
    IN  (/\ pc = "called" /\ call.op = "find_function_in_code"
         /\ ast_parse(file).error
         /\ valid # None
         /\ \A i \in 1..Len(file) : file[i] = "!" => ~(valid[1] < i /\ i <= valid[2]))
            => /\ ret # None
               /\ ret[1] = valid[1]
               /\ ret[3] = valid[3]

\* the span is well formed and starts with the first character of a `def` line
SpanStartsAtDef ==
    /\ ret[1] <= ret[2]
    /\ ret[3] >= 0
    /\ \E k \in 1..Len(splitlines(file, TRUE)) :
           /\ ret[1] = LineStart(file, k)
           /\ startswith(lstrip(splitlines(file, TRUE)[k]), kw_def)

\* the lines of the span after its first one
TrailingLines == {k \in SpanLines(file, ret) : LineStart(file, k) > ret[1]}

\* C10 as stated: every span has start <= end and indent >= 0, starts at the
\* definition line and holds no later line indented by indent_width or less.
C10_SpanInvariant ==
    (Located /\ ret # None)
        => /\ SpanStartsAtDef
           /\ \A k \in TrailingLines : Column(splitlines(file, TRUE)[k]) > ret[3]

\* C10 amended: ... and holds no later line indented by indent_width or less
\* other than blank lines and comment lines.
C10_SpanInvariantOfCode ==
    (Located /\ ret # None)
        => /\ SpanStartsAtDef
           /\ \A k \in TrailingLines :
                  LET line == splitlines(file, TRUE)[k]
                  IN  \/ Column(line) > ret[3]
                      \/ \A i \in 1..Len(line) : IsSpace(line[i])
                      \/ line[Column(line) + 1] = "#"

\* a span with a body line and a comment in column 0 after it
C10_Witness ==
    /\ Located /\ ret # None
    /\ \E k \in TrailingLines : Column(splitlines(file, TRUE)[k]) > ret[3]
    /\ \E k \in TrailingLines : splitlines(file, TRUE)[k] = CommentLine

-----------------------------------------------------------------------------
(* The end-of-function scan on its own: any text of at most MaxRawLines    *)
(* lines, well indented or not, any start line and indentation width.      *)

MaxRawLines == 3

RawLines ==
    {Line(i, <<"x">>) : i \in Indents} \cup {CommentLine, Line(2, <<"#">>), <<NL>>, Line(2, <<>>)}

RECURSIVE RawTexts(_)
RawTexts(n) ==
    IF n = 0 THEN {<<>>}
    ELSE RawTexts(n - 1) \cup {t \o l : t \in RawTexts(n - 1), l \in RawLines}

BoundaryInit == Idle(RawTexts(MaxRawLines))

CallFindFunctionEndRegex(start_line, function_indent) ==
    /\ pc = "idle"
    /\ start_line < Len(splitlines(file, TRUE))
    /\ ret' = find_function_end_regex(splitlines(file, TRUE), start_line, function_indent)
    /\ call' = [NoCall EXCEPT !.op = "find_function_end_regex", !.before = file,
                              !.start_line = start_line, !.indent = function_indent]
    /\ pc' = "called"
    /\ UNCHANGED <<file, writes, changes, index, outcomes>>

\* lines 61-82 of find_function_in_code, entered with a start line and its indentation
RunAstSpan(start_line, function_indent) ==
    /\ pc = "idle"
    /\ start_line < Len(splitlines(file, TRUE))
    /\ ret' = ast_span(splitlines(file, TRUE), start_line, function_indent)
    /\ call' = [NoCall EXCEPT !.op = "ast_span", !.before = file,
                              !.start_line = start_line, !.indent = function_indent]
    /\ pc' = "called"
    /\ UNCHANGED <<file, writes, changes, index, outcomes>>

BoundaryNext ==
    \/ \E s \in 0..(MaxRawLines - 1), w \in Indents : CallFindFunctionEndRegex(s, w)
    \/ \E s \in 0..(MaxRawLines - 1), w \in Indents : RunAstSpan(s, w)

BoundarySpec == BoundaryInit /\ [][BoundaryNext]_vars

Scanned == pc = "called" /\ call.op \in {"find_function_end_regex", "ast_span"}

\* a line that is neither blank nor a comment and is indented by w or less
StopsAt(line, w) ==
    /\ \E i \in 1..Len(line) : ~IsSpace(line[i])
    /\ line[Column(line) + 1] # "#"
    /\ Column(line) <= w

\* 0-based indices of the lines after s that stop the scan
StopLines(lines, s, w) == {k \in (s + 1)..(Len(lines) - 1) : StopsAt(lines[k + 1], w)}

\* C3: the computed end is the first line after the start line that is neither
\* blank nor a comment and is indented by w or less, or the number of lines if
\* there is none; the blank and comment lines before it are in the span.
C3_BoundaryResolution ==
    Scanned =>
        LET lines == splitlines(file, TRUE)
            stops == StopLines(lines, call.start_line, call.indent)
        IN  /\ ret[1] = SumLen(lines, call.start_line)
            /\ ret[2] = SumLen(lines, IF stops = {} THEN Len(lines) ELSE Min(stops))
            /\ ret[3] = call.indent

\* a comment in column 0 inside the span of a scan with width 1, a stopping line after it
C3_Witness ==
    /\ Scanned /\ call.indent = 1 /\ call.start_line = 0
    /\ LET lines == splitlines(file, TRUE)
       IN  /\ Len(lines) = 3
           /\ lines[2] = CommentLine
           /\ StopsAt(lines[3], 1)
           /\ ret[2] = SumLen(lines, 2)

-----------------------------------------------------------------------------
(* apply_function_change on a file, and the same function located again in *)
(* the file it leaves.  The files are the documents of at most             *)
(* MaxRewriteStmts statements, the document of the worked scenario, and no *)
(* file at all.                                                            *)

MaxRewriteStmts == 3

bar == <<"b", "a", "r">>
Foo == <<"F", "o", "o">>

ScenarioDocument ==
    Line(0, <<"c", "l", "a", "s", "s", " ", "F", "o", "o", ":">>)
    \o Line(4, <<"d", "e", "f", " ", "b", "a", "r", "(", "s", "e", "l", "f", ")", ":">>)
    \o Line(8, <<"r", "e", "t", "u", "r", "n", " ", "1">>)
    \o <<NL>>
    \o Line(4, <<"d", "e", "f", " ", "b", "a", "z", "(", "s", "e", "l", "f", ")", ":">>)
    \o Line(8, <<"r", "e", "t", "u", "r", "n", " ", "2">>)

ScenarioNewCode == Line(0, <<"d", "e", "f", " ", "b", "a", "r", "(", "s", "e", "l", "f", ")", ":">>) \o Line(4, <<"r", "e", "t", "u", "r", "n", " ", "4", "2">>)

\* the replacement texts: a definition of f; one with its own indentation and a
\* blank last line; one without a line end; one behind a comment; one followed
\* by a statement; the empty text; the scenario's
NewCodes ==
    { Line(0, <<"d", "e", "f", " ", "f", "(", ")", ":">>) \o Line(1, <<"x">>),
      Line(2, <<"d", "e", "f", " ", "f", "(", ")", ":">>) \o Line(4, <<"x">>) \o <<NL>>,
      <<"d", "e", "f", " ", "f", "(", ")", ":", " ", "x">>,
      CommentLine \o Line(0, <<"d", "e", "f", " ", "f", "(", ")", ":">>) \o Line(1, <<"x">>),
      Line(0, <<"d", "e", "f", " ", "f", "(", ")", ":">>) \o Line(1, <<"x">>) \o Line(0, <<"x">>),
      <<>>,
      ScenarioNewCode }

Targets == {<<f, <<>>>>, <<f, A>>, <<bar, <<>>>>, <<bar, Foo>>}

RewriteDocs == Texts(DocsUpTo(MaxRewriteStmts, {"A", "f", "x", "#", "!"})) \cup {ScenarioDocument}

RewriteInit == Idle(RewriteDocs \cup {Missing})

CallApplyFunctionChange(function_name, new_code, class_name) ==
    LET r == apply_function_change(file, function_name, new_code, class_name)
    IN  /\ pc = "idle"
        /\ file' = r.fs
        /\ writes' = IF r.wrote THEN writes + 1 ELSE writes
        /\ ret' = <<r.ok>>
        /\ call' = [NoCall EXCEPT !.op = "apply_function_change",
                                  !.function_name = function_name,
                                  !.class_name = class_name,
                                  !.new_code = new_code, !.before = file,
                                  !.result = r.result]
        /\ pc' = "called"
        /\ UNCHANGED <<changes, index, outcomes>>

\* the function that was replaced, located again in the file as written
LocateAgain ==
    /\ pc = "called" /\ call.op = "apply_function_change" /\ ret = <<TRUE>>
    /\ ret' = find_function_in_code(file, call.function_name, call.class_name)
    /\ pc' = "relocated"
    /\ UNCHANGED <<file, call, writes, changes, index, outcomes>>

RewriteNext ==
    \/ \E t \in Targets, new_code \in NewCodes : CallApplyFunctionChange(t[1], new_code, t[2])
    \/ LocateAgain

RewriteSpec == RewriteInit /\ [][RewriteNext]_vars

Applied == pc = "called" /\ call.op = "apply_function_change"

ScenarioCall ==
    /\ Applied
    /\ call.before = ScenarioDocument
    /\ call.function_name = bar /\ call.class_name = Foo
    /\ call.new_code = ScenarioNewCode

\* C2 as stated: the scenario yields the document with bar's body replaced and
\* the blank line between bar and baz still in place.
C2_ScenarioAsStated ==
    ScenarioCall =>
        /\ ret = <<TRUE>>
        /\ file = Line(0, <<"c", "l", "a", "s", "s", " ", "F", "o", "o", ":">>)
                  \o Line(4, <<"d", "e", "f", " ", "b", "a", "r", "(", "s", "e", "l", "f", ")", ":">>)
                  \o Line(8, <<"r", "e", "t", "u", "r", "n", " ", "4", "2">>)
                  \o <<NL>>
                  \o Line(4, <<"d", "e", "f", " ", "b", "a", "z", "(", "s", "e", "l", "f", ")", ":">>)
                  \o Line(8, <<"r", "e", "t", "u", "r", "n", " ", "2">>)

\* C2 amended: the scenario yields the document with bar's body replaced and
\* baz following it directly; the blank line is part of the replaced span.
C2_ScenarioOfCode ==
    ScenarioCall =>
        /\ ret = <<TRUE>>
        /\ call.result = <<11, 48, 4>>
        /\ file = Line(0, <<"c", "l", "a", "s", "s", " ", "F", "o", "o", ":">>)
                  \o Line(4, <<"d", "e", "f", " ", "b", "a", "r", "(", "s", "e", "l", "f", ")", ":">>)
                  \o Line(8, <<"r", "e", "t", "u", "r", "n", " ", "4", "2">>)
                  \o Line(4, <<"d", "e", "f", " ", "b", "a", "z", "(", "s", "e", "l", "f", ")", ":">>)
                  \o Line(8, <<"r", "e", "t", "u", "r", "n", " ", "2">>)

C2_Witness == ScenarioCall /\ writes = 1

\* a line with a character that is not white space
NonBlank(line) == \E i \in 1..Len(line) : ~IsSpace(line[i])

\* the replacement as the rewriter is to lay it out at indentation width w
Reindented(new_code, w) ==
    LET L == splitlines(new_code, FALSE)
        R == [i \in 1..Len(L) |->
                 IF i = 1 THEN Spaces(w) \o Drop(L[1], Column(L[1]))
                 ELSE IF NonBlank(L[i]) THEN Spaces(w) \o L[i]
                      ELSE L[i]]
        J == JoinNL(R)
    IN  IF J # <<>> /\ J[Len(J)] = NL THEN J ELSE J \o <<NL>>

\* C4: when a span (start, end, w) is found, the file written is the text before
\* start, the replacement laid out at width w, and the text from end on.
C4_RewriteResult ==
    (Applied /\ call.result # None)
        => /\ ret = <<TRUE>>
           /\ writes = 1
           /\ file = SubSeq(call.before, 1, call.result[1])
                     \o Reindented(call.new_code, call.result[3])
                     \o Drop(call.before, call.result[2])

\* a method replaced by the text that carries its own indentation and a blank last line
C4_Witness ==
    /\ Applied /\ call.result # None /\ call.result[1] > 0 /\ call.result[3] > 0
    /\ call.result[2] < Len(call.before)
    /\ call.new_code = Line(2, <<"d", "e", "f", " ", "f", "(", ")", ":">>) \o Line(4, <<"x">>) \o <<NL>>

\* the text occurs in the content
Occurs(text, content) ==
    \E i \in 0..(Len(content) - Len(text)) : SubSeq(content, i + 1, i + Len(text)) = text

\* the function or the class asked for occurs nowhere in the file that was read
TargetAbsent ==
    \/ ~Occurs(call.function_name, call.before)
    \/ call.class_name # <<>> /\ ~Occurs(call.class_name, call.before)

\* C8: with the function or the class absent, both locators find nothing, the
\* call fails and the file is neither written nor changed; a missing file is a
\* failure and stays missing.
C8_NotFoundLeavesFile ==
    Applied =>
        /\ call.before = Missing => (ret = <<FALSE>> /\ file = Missing /\ writes = 0)
        /\ (call.before # Missing /\ TargetAbsent) =>
               /\ find_function_in_code(call.before, call.function_name, call.class_name) = None
               /\ find_function_regex(call.before, call.function_name, call.class_name) = None
               /\ ret = <<FALSE>>
               /\ writes = 0
               /\ file = call.before

\* f asked for in a class that the file, which fails to parse, does not hold
C8_Witness ==
    /\ Applied /\ call.before # Missing /\ call.class_name = A
    /\ ~Occurs(A, call.before) /\ Occurs(kw_def \o <<" ">> \o f, call.before)
    /\ ast_parse(call.before).error
    /\ ret = <<FALSE>>

Relocated == pc = "relocated" /\ call.class_name = <<>>

\* the file read parses and defines exactly one function of the name asked for
UniquelyNamed ==
    /\ ~ast_parse(call.before).error
    /\ Cardinality(Named(Structure(call.before), "FunctionDef", call.function_name)) = 1

\* some line of the replacement is a `def` header of the name asked for
DefinesTarget ==
    \E i \in 1..Len(splitlines(call.new_code, FALSE)) :
        function_pattern(splitlines(call.new_code, FALSE)[i], call.function_name) # NoMatch

\* the span found again is the replacement as laid out, at the old start
RoundTrip ==
    /\ ret # None
    /\ ret[1] = call.result[1]
    /\ SubSeq(file, ret[1] + 1, ret[2]) = Reindented(call.new_code, call.result[3])

\* C7 as stated: for a well-formed document with a uniquely named f and any
\* replacement that defines f, locating f again after the rewrite returns
\* exactly the re-indented replacement.
C7_RoundTrip == (Relocated /\ UniquelyNamed /\ DefinesTarget) => RoundTrip

\* the replacement starts with the `def` header and every later line of it is
\* blank, a comment, or indented
HeaderFirst ==
    LET L == splitlines(call.new_code, FALSE)
    IN  /\ L # <<>>
        /\ function_pattern(L[1], call.function_name) # NoMatch
        /\ \A i \in 2..Len(L) :
               \/ ~NonBlank(L[i])
               \/ L[i][Column(L[i]) + 1] = "#"
               \/ Column(L[i]) > 0

\* C7 amended: ... and any replacement whose first line is the `def f` header
\* and whose later lines are blank, comments or indented ...
C7_RoundTripHeaderFirst == (Relocated /\ UniquelyNamed /\ HeaderFirst) => RoundTrip

\* a method of a class, with a comment behind it, replaced and found again
C7_Witness ==
    /\ Relocated /\ UniquelyNamed /\ HeaderFirst /\ RoundTrip
    /\ call.result[3] > 0
    /\ call.result[2] - call.result[1] > Len(Reindented(call.new_code, call.result[3]))

-----------------------------------------------------------------------------
(* main(): the loop over the changes of the selected instruction, lines    *)
(* 272-277.  The queue pairs each code with its function name; the file    *)
(* is one of the documents of at most MaxRunStmts statements, or missing.  *)

MaxChanges == 2
MaxRunStmts == 2

RunCodes ==
    { Line(0, <<"d", "e", "f", " ", "f", "(", ")", ":">>) \o Line(1, <<"x">>),
      Line(0, <<"d", "e", "f", " ", "b", "a", "r", "(", ")", ":">>) \o Line(1, <<"x">>) }

Change == [function_name : {f, bar}, code : RunCodes]

RECURSIVE ChangeLists(_)
ChangeLists(n) ==
    IF n = 0 THEN {<<>>}
    ELSE ChangeLists(n - 1) \cup {Append(q, c) : q \in ChangeLists(n - 1), c \in Change}

RunDocs == Texts(DocsUpTo(MaxRunStmts, {"A", "f", "x", "!"}))

RunInit ==
    /\ file \in RunDocs \cup {Missing}
    /\ changes \in ChangeLists(MaxChanges)
    /\ pc = "run"
    /\ index = 0
    /\ outcomes = <<>>
    /\ writes = 0
    /\ call = NoCall
    /\ ret = None

\* a loop that gives up at the first change that is not applied
main_iteration_stops(fs, queue, i) ==
    LET r == apply_function_change(fs, queue[i + 1].function_name, queue[i + 1].code, <<>>)
    IN  [fs |-> r.fs, wrote |-> r.wrote, status |-> r.status, index |-> i + 1,
         pc |-> IF r.ok THEN "run" ELSE "done"]

\* one iteration of the for loop: the call made for the change at index, and
\* where the loop stands after it
main_iteration(fs, queue, i) ==
    LET r == apply_function_change(fs, queue[i + 1].function_name, queue[i + 1].code, <<>>)
    IN  [fs |-> r.fs, wrote |-> r.wrote, status |-> r.status, index |-> i + 1, pc |-> "run"]

ApplyNextChange ==
    /\ pc = "run"
    /\ index < Len(changes)
    /\ \E it \in {main_iteration(file, changes, index)} :
           /\ file' = it.fs
           /\ writes' = IF it.wrote THEN writes + 1 ELSE writes
           /\ outcomes' = Append(outcomes, it.status)
           /\ index' = it.index
           /\ pc' = it.pc
    /\ UNCHANGED <<call, ret, changes>>

\* the loop is exhausted and main() returns
Return ==
    /\ pc = "run"
    /\ index = Len(changes)
    /\ pc' = "done"
    /\ UNCHANGED <<file, call, ret, writes, changes, index, outcomes>>

RunNext == ApplyNextChange \/ Return

\* the control of main() moves on: to the next change, or out of the loop
Advance == pc = "run" /\ pc' \in {"run", "done"} /\ index' \in {index, index + 1}

\* main() is sequential code without waits: while it runs, its control moves
\* on.  RunNext is enabled exactly when pc = "run", so this is weak fairness
\* of RunNext.
LiveSpec == RunInit /\ [][RunNext]_vars /\ WF_<<pc, index>>(Advance)

\* the outcome a change is to report on the file as it stands
OutcomeOn(fs, change) ==
    IF fs = Missing THEN "file not found"
    ELSE IF find_function_in_code(fs, change.function_name, <<>>) = None
         THEN "function not found"
         ELSE "replaced"

\* C9: every queued change is attempted, in list order, on the file as the
\* changes before it left it, and reports its own outcome; no outcome ends the
\* run before the last change has been attempted.
C9_PerChangeIndependence ==
    /\ [][index' # index =>
            /\ index' = index + 1
            /\ outcomes' = Append(outcomes, OutcomeOn(file, changes[index + 1]))
            /\ (OutcomeOn(file, changes[index + 1]) # "replaced" => file' = file)
            /\ pc' = "run"]_vars
    /\ [](pc = "done" => (index = Len(changes) /\ Len(outcomes) = Len(changes)))
    /\ <>(pc = "done")

\* a change that finds nothing, then one that is applied
C9_Witness ==
    /\ pc = "done"
    /\ outcomes = <<"function not found", "replaced">>
    /\ writes = 1
    /\ outcomes[1] = "function not found"
    /\ outcomes[2] = "replaced"

====
